---- MODULE Spec2Model ----
(***************************************************************************)
(* A model of the doomstack error-chaining library: Entry, Stack, Top and  *)
(* the Doom trait's provided methods.  Every owned value (a Stack, a       *)
(* Top<D>, a bare Entry) lives in a slot of `chain`; the builder methods,  *)
(* which take `self` by value and return the new value, replace the        *)
(* slot's content.  A panic (an `unwrap()` on `None`) leaves the slot      *)
(* aborted.                                                                *)
(***************************************************************************)
EXTENDS Integers, Sequences, FiniteSets, TLC

VARIABLES
    chain,   \* slot -> the value the owner holds (none, stack, top, entry, aborted)
    pushed,  \* slot -> the errors given to the chain so far, oldest first (history)
    path,    \* slot -> how the chain was built: "typed", "direct" or "mixed" (history)
    out      \* what the latest operation wrote to its Formatter, if it rendered

vars == <<chain, pushed, path, out>>

\* ------------------------------------------------------------------ bounds

\* The longest chain (archived entries plus the unarchived top) an owner builds.
MaxLen == 3

\* The owner that builds the chain, and the owner that receives its clones.
Builder == "builder"
Keeper == "keeper"
Owners == {Builder, Keeper}

\* ------------------------------------------------------------- Option<T>

None == <<>>
Some(x) == <<x>>
is_some(o) == o # <<>>
unwrap(o) == o[1]

\* -------------------------------------------------------------- Location

\* Location { file, line }: the values here!() yields at two call sites.
Locations == {[file |-> "lib.rs", line |-> 7], [file |-> "main.rs", line |-> 12]}

\* impl Display for Location: "{file}:{line}".
Location_fmt(location) == location.file \o ":" \o ToString(location.line)

\* ----------------------------------------------------------- Description

Static(text) == [variant |-> "Static", text |-> text]
Owned(text) == [variant |-> "Owned", text |-> text]

\* Description::as_str: the held text, whichever the variant.
as_str(description) == description.text

\* impl Display for Description: write!(f, "{}", self.as_str()).
Description_fmt(description) == as_str(description)

\* ------------------------------------------------------ Doom implementers

\* The error values of the documentation's examples: AnotherError { severity }
\* (dynamic description, not kept) and Oupsie(u64) (static description, kept).
Dooms == {[ty |-> "AnotherError", field |-> 3],
          [ty |-> "Oupsie", field |-> 42],
          [ty |-> "Oupsie", field |-> 7]}

\* Doom::tag.
tag(doom) == doom.ty

\* Doom::description.
description(doom) ==
    IF doom.ty = "AnotherError"
    THEN Owned("Another error occurred, with severity " \o ToString(doom.field))
    ELSE Static("Made a mess")

\* Doom::keep_original: the default is false, Oupsie overrides it to true.
keep_original(doom) == doom.ty = "Oupsie"

\* ------------------------------------------------------------------ Entry

\* Arc::new(doom) as Arc<dyn Any + Send + Sync>: the value behind its type id.
Arc_new(doom) == [type_id |-> doom.ty, value |-> doom]

\* <dyn Any>::downcast_ref::<T>: the value when it is a T, nothing otherwise.
downcast_ref(any, ty) == IF any.type_id = ty THEN Some(any.value) ELSE None

\* A mutant of Entry::archive that erases the original behind a second box, so
\* that it is no longer a value of the error's own type.
Entry_archive_Boxed(doom) ==
    LET entry == [tag |-> tag(doom), description |-> description(doom),
                  location |-> None, original |-> None]
    IN IF keep_original(doom)
       THEN [entry EXCEPT !.original = Some([type_id |-> "Box", value |-> doom])]
       ELSE entry

\* A mutant of Entry::archive that retains every error, whatever keep_original says.
Entry_archive_KeepsAll(doom) ==
    [tag |-> tag(doom), description |-> description(doom),
     location |-> None, original |-> Some(Arc_new(doom))]

\* Entry::archive.
Entry_archive(doom) ==
    LET entry == [tag |-> tag(doom), description |-> description(doom),
                  location |-> None, original |-> None]
    IN IF keep_original(doom)
       THEN [entry EXCEPT !.original = Some(Arc_new(doom))]
       ELSE entry

\* Entry::tag, Entry::description, Entry::location, Entry::original.
Entry_tag(entry) == entry.tag
Entry_description(entry) == as_str(entry.description)
Entry_location(entry) == entry.location
Entry_original(entry) == entry.original

\* A mutant of Entry::spot that keeps a location already set (first write wins).
Entry_spot_Once(entry, location) ==
    IF is_some(entry.location) THEN entry ELSE [entry EXCEPT !.location = Some(location)]

\* Entry::spot.
Entry_spot(entry, location) == [entry EXCEPT !.location = Some(location)]

\* impl Display for Entry: the tag.
Entry_fmt_Display(entry) == entry.tag

\* impl Debug for Entry.
Entry_fmt_Debug(entry) ==
    IF is_some(entry.location)
    THEN "[" \o entry.tag \o " @ " \o Location_fmt(unwrap(entry.location)) \o "] "
             \o Description_fmt(entry.description)
    ELSE "[" \o entry.tag \o "] " \o Description_fmt(entry.description)

\* ------------------------------------------------------ values and panics

NoValue == [kind |-> "none"]

\* The outcome of an operation that panicked: `by` names the function whose
\* unwrap() met None.
Panic(by) == [kind |-> "aborted", by |-> by]

\* What a fmt wrote to its Formatter.
Text(text) == [kind |-> "text", text |-> text]

\* The text a format!() call returned, with the trait it asked for.
Written(trait, result) == [kind |-> "text", fmt |-> trait, text |-> result.text]

\* slice::iter().rev()
RECURSIVE rev(_)
rev(seq) == IF seq = <<>> THEN <<>> ELSE Append(rev(Tail(seq)), Head(seq))

\* ------------------------------------------------------------------ Stack

\* Top::from_parts: no pending location.
Top_from_parts(doom, stack) ==
    [kind |-> "top", doom |-> doom, location |-> None, stack |-> stack]

\* Stack::new: Default::default(), no entries.
Stack_new == [kind |-> "stack", entries |-> <<>>]

\* A mutant of Stack::entries that forgets .rev(): oldest first.
Stack_entries_Forward(stack) == stack.entries

\* Stack::entries: top (most recently pushed) to bottom.
Stack_entries(stack) == rev(stack.entries)

\* A mutant of Stack::push that also archives the error it wraps.
Stack_push_Eager(stack, doom) ==
    Top_from_parts(doom, [stack EXCEPT !.entries = Append(@, Entry_archive(doom))])

\* Stack::push: wraps the error and the stack; nothing is archived.
Stack_push(stack, doom) == Top_from_parts(doom, stack)

\* Stack::push_as_stack: self.entries.push(Entry::archive(doom)).
Stack_push_as_stack(stack, doom) ==
    [stack EXCEPT !.entries = Append(@, Entry_archive(doom))]

\* A mutant of Stack::spot that spots the first (oldest) entry.
Stack_spot_First(stack, location) ==
    IF stack.entries = <<>>
    THEN Panic("Stack::spot")
    ELSE [stack EXCEPT !.entries[1] = Entry_spot(@, location)]

\* A mutant of Stack::spot that ignores an empty stack (if let Some(..)).
Stack_spot_Lenient(stack, location) ==
    IF stack.entries = <<>>
    THEN stack
    ELSE [stack EXCEPT !.entries[Len(stack.entries)] = Entry_spot(@, location)]

\* Stack::spot: self.entries.last_mut().unwrap().spot(location).
Stack_spot(stack, location) ==
    IF stack.entries = <<>>
    THEN Panic("Stack::spot")
    ELSE [stack EXCEPT !.entries[Len(stack.entries)] = Entry_spot(@, location)]

\* A mutant of Top::spot that spots the entry on top of the underlying stack.
Top_spot_Under(top, location) ==
    IF top.stack.entries = <<>>
    THEN [top EXCEPT !.location = Some(location)]
    ELSE [top EXCEPT !.stack.entries[Len(top.stack.entries)].location = Some(location)]

\* Top::spot: sets the pending location of the unarchived error.
Top_spot(top, location) == [top EXCEPT !.location = Some(location)]

\* A mutant of Stack::pot that spots the Stack before pushing: the location
\* lands on the entry that was on top, and an empty Stack aborts.
Stack_pot_SpotsStack(stack, doom, location) ==
    IF stack.entries = <<>>
    THEN Panic("Stack::spot")
    ELSE Top_from_parts(doom,
             [stack EXCEPT !.entries[Len(stack.entries)].location = Some(location)])

\* Stack::pot: self.push(doom).spot(location), the spot being Top::spot.
Stack_pot(stack, doom, location) == Top_spot(Stack_push(stack, doom), location)

\* A mutant of Display for Stack that shows the first (oldest) entry.
Stack_fmt_Display_First(stack) ==
    IF stack.entries = <<>>
    THEN Panic("Stack::fmt")
    ELSE Text("<top: " \o Entry_fmt_Display(stack.entries[1]) \o ">")

\* impl Display for Stack: write!(f, "<top: {}>", self.entries.last().unwrap()).
Stack_fmt_Display(stack) ==
    IF stack.entries = <<>>
    THEN Panic("Stack::fmt")
    ELSE Text("<top: " \o Entry_fmt_Display(stack.entries[Len(stack.entries)]) \o ">")

\* The lines writeln!(f, "{entry:?}") writes for a sequence of entries.
RECURSIVE Lines(_)
Lines(entries) ==
    IF entries = <<>> THEN ""
    ELSE Entry_fmt_Debug(Head(entries)) \o "\n" \o Lines(Tail(entries))

\* A mutant of Debug for Stack that iterates self.entries, oldest first.
Stack_fmt_Debug_Oldest(stack) == Text(Lines(stack.entries))

\* impl Debug for Stack: one line per entry of self.entries().
Stack_fmt_Debug(stack) == Text(Lines(Stack_entries(stack)))

\* -------------------------------------------------------------------- Top

\* Top::doom, Top::location, Top::stack.
Top_doom(top) == top.doom
Top_location(top) == top.location
Top_stack(top) == top.stack

\* A mutant of the conversion that spots before it archives: the pending
\* location lands on the entry that was on top of the underlying stack.
Stack_from_SpotsUnder(top) ==
    IF is_some(top.location) /\ top.stack.entries # <<>>
    THEN Stack_push_as_stack(Stack_spot(top.stack, unwrap(top.location)), top.doom)
    ELSE Stack_push_as_stack(top.stack, top.doom)

\* A mutant of the conversion that calls Stack::spot before it appends: over
\* a stack with no entries the unwrap() in Stack::spot meets None.
Stack_from_SpotFirst(top) ==
    LET spotted == IF is_some(top.location)
                   THEN Stack_spot(top.stack, unwrap(top.location))
                   ELSE top.stack
    IN IF spotted.kind = "aborted" THEN spotted
       ELSE Stack_push_as_stack(spotted, top.doom)

\* A mutant of the conversion that drops the Top's pending location.
Stack_from_Unspotted(top) == Stack_push_as_stack(top.stack, top.doom)

\* A mutant of the conversion that returns the underlying stack as it is.
Stack_from_Under(top) == top.stack

\* impl From<Top<D>> for Stack: archive the error on top of the underlying
\* stack, then apply the pending location, if any, with Stack::spot.
Stack_from(top) ==
    LET stack == Stack_push_as_stack(top.stack, top.doom)
    IN IF is_some(top.location)
       THEN Stack_spot(stack, unwrap(top.location))
       ELSE stack

\* A mutant of Top::push that hands the old pending location to the new Top.
Top_push_Carry(top, doom) ==
    LET stack == Stack_from(top)
    IN IF stack.kind = "aborted" THEN stack
       ELSE [kind |-> "top", doom |-> doom, location |-> top.location, stack |-> stack]

\* A mutant of Top::push that pushes onto the underlying stack without
\* archiving the error the Top holds.
Top_push_Skip(top, doom) == Stack_push(top.stack, doom)

\* Top::push: Stack::from(self).push(doom).
Top_push(top, doom) ==
    LET stack == Stack_from(top)
    IN IF stack.kind = "aborted" THEN stack ELSE Stack_push(stack, doom)

\* A mutant of Top::push_as_stack that archives the new error onto the
\* underlying stack and loses the one the Top holds.
Top_push_as_stack_Skip(top, doom) == Stack_push_as_stack(top.stack, doom)

\* Top::push_as_stack: Stack::from(self).push_as_stack(doom).
Top_push_as_stack(top, doom) ==
    LET stack == Stack_from(top)
    IN IF stack.kind = "aborted" THEN stack ELSE Stack_push_as_stack(stack, doom)

\* Top::pot: self.push(doom).spot(location).
Top_pot(top, doom, location) ==
    LET pushed_top == Top_push(top, doom)
    IN IF pushed_top.kind = "aborted" THEN pushed_top ELSE Top_spot(pushed_top, location)

\* impl Display for Top: write!(f, "<top: {}>", self.doom.tag()).
Top_fmt_Display(top) == Text("<top: " \o tag(top.doom) \o ">")

\* A mutant of Debug for Top that leaves the pending location out of its line.
Top_fmt_Debug_Plain(top) ==
    Text("[" \o tag(top.doom) \o "] " \o Description_fmt(description(top.doom)) \o "\n"
             \o Lines(rev(top.stack.entries)))

\* impl Debug for Top: the line of the unarchived error, then the stack's.
Top_fmt_Debug(top) ==
    LET first ==
            IF is_some(top.location)
            THEN "[" \o tag(top.doom) \o " @ " \o Location_fmt(unwrap(top.location))
                     \o "] " \o Description_fmt(description(top.doom)) \o "\n"
            ELSE "[" \o tag(top.doom) \o "] "
                     \o Description_fmt(description(top.doom)) \o "\n"
        rest == Stack_fmt_Debug(top.stack)
    IN Text(first \o rest.text)

\* ------------------------------------------------------------------- Doom

\* A mutant of Doom::into_top that archives the error under the Top as well.
into_top_Archived(doom) == Stack_push(Stack_push_as_stack(Stack_new, doom), doom)

\* Doom::into_top: Stack::new().push(self).
into_top(doom) == Stack_push(Stack_new, doom)

\* Doom::into_stack: self.into_top().into().
into_stack(doom) == Stack_from(into_top(doom))

\* --------------------------------------------------------------- the state

\* The number of errors a value holds: archived entries, plus the unarchived top.
Size(value) ==
    CASE value.kind = "stack" -> Len(value.entries)
      [] value.kind = "top" -> Len(value.stack.entries) + 1
      [] value.kind = "entry" -> 1
      [] OTHER -> 0

NoText == [kind |-> "none"]

Init ==
    /\ chain = [o \in Owners |-> NoValue]
    /\ pushed = [o \in Owners |-> <<>>]
    /\ path = [o \in Owners |-> "none"]
    /\ out = NoText

\* A mutant of the builder style in which a clone is a second handle on the
\* same entries: what one owner builds shows through the other's handle.
Put_Aliased(o, result, doom, how) ==
    /\ chain' = [x \in Owners |->
                    IF x = o \/ (chain[o].kind \in {"stack", "top", "entry"} /\ chain[x] = chain[o])
                    THEN result ELSE chain[x]]
    /\ pushed' = [pushed EXCEPT ![o] = IF is_some(doom) THEN Append(@, unwrap(doom)) ELSE @]
    /\ path' = [path EXCEPT ![o] = how]
    /\ out' = NoText

\* The slot o takes the result of an operation that was given the error doom
\* (or no error, for doom = None); a panic ends the chain's history.
Put(o, result, doom, how) ==
    /\ chain' = [chain EXCEPT ![o] = result]
    /\ pushed' = [pushed EXCEPT ![o] = IF is_some(doom) THEN Append(@, unwrap(doom)) ELSE @]
    /\ path' = [path EXCEPT ![o] = how]
    /\ out' = NoText

\* let stack = Stack::new();
New(o) ==
    /\ chain[o].kind = "none"
    /\ Put(o, Stack_new, None, "direct")

\* let top = doom.into_top();
IntoTop(o, doom) ==
    /\ chain[o].kind = "none"
    /\ Put(o, into_top(doom), Some(doom), "typed")

\* let stack = doom.into_stack();
IntoStack(o, doom) ==
    /\ chain[o].kind = "none"
    /\ Put(o, into_stack(doom), Some(doom), "mixed")

\* let entry = Entry::archive(doom);
Archive(o, doom) ==
    /\ chain[o].kind = "none"
    /\ Put(o, [kind |-> "entry", entry |-> Entry_archive(doom)], Some(doom), "mixed")

\* entry.spot(location);
EntrySpot(o, location) ==
    /\ chain[o].kind = "entry"
    /\ Put(o, [chain[o] EXCEPT !.entry = Entry_spot(@, location)], None, "mixed")

\* let top = stack.push(doom);
StackPush(o, doom) ==
    /\ chain[o].kind = "stack"
    /\ Size(chain[o]) < MaxLen
    /\ Put(o, Stack_push(chain[o], doom), Some(doom), "mixed")

\* let stack = stack.push_as_stack(doom);
StackPushAsStack(o, doom) ==
    /\ chain[o].kind = "stack"
    /\ Size(chain[o]) < MaxLen
    /\ Put(o, Stack_push_as_stack(chain[o], doom), Some(doom),
           IF path[o] = "direct" THEN "direct" ELSE "mixed")

\* let stack = stack.spot(location);
StackSpot(o, location) ==
    /\ chain[o].kind = "stack"
    /\ Put(o, Stack_spot(chain[o], location), None, "mixed")

\* let top = stack.pot(doom, location);
StackPot(o, doom, location) ==
    /\ chain[o].kind = "stack"
    /\ Size(chain[o]) < MaxLen
    /\ Put(o, Stack_pot(chain[o], doom, location), Some(doom), "mixed")

\* let top = top.push(doom);
TopPush(o, doom) ==
    /\ chain[o].kind = "top"
    /\ Size(chain[o]) < MaxLen
    /\ Put(o, Top_push(chain[o], doom), Some(doom),
           IF path[o] = "typed" THEN "typed" ELSE "mixed")

\* let stack = top.push_as_stack(doom);
TopPushAsStack(o, doom) ==
    /\ chain[o].kind = "top"
    /\ Size(chain[o]) < MaxLen
    /\ Put(o, Top_push_as_stack(chain[o], doom), Some(doom),
           IF path[o] = "typed" THEN "typed" ELSE "mixed")

\* let top = top.spot(location);
TopSpot(o, location) ==
    /\ chain[o].kind = "top"
    /\ Put(o, Top_spot(chain[o], location), None, "mixed")

\* let top = top.pot(doom, location);
TopPot(o, doom, location) ==
    /\ chain[o].kind = "top"
    /\ Size(chain[o]) < MaxLen
    /\ Put(o, Top_pot(chain[o], doom, location), Some(doom), "mixed")

\* let stack = Stack::from(top);
Convert(o) ==
    /\ chain[o].kind = "top"
    /\ Put(o, Stack_from(chain[o]), None, "mixed")

\* #[derive(Clone)]: field by field; the Arc of an original is shared, and
\* what it points to is the same value.
clone(value) == value

\* let kept = value.clone();  (the value the receiving owner held is dropped)
Clone(o, k) ==
    /\ o # k
    /\ chain[o].kind \in {"stack", "top", "entry"}
    /\ chain' = [chain EXCEPT ![k] = clone(chain[o])]
    /\ pushed' = [pushed EXCEPT ![k] = pushed[o]]
    /\ path' = [path EXCEPT ![k] = path[o]]
    /\ out' = NoText

\* format!("{}", value): a panic in fmt unwinds through the owner.
Display(o) ==
    /\ chain[o].kind \in {"stack", "top"}
    /\ LET result == IF chain[o].kind = "stack"
                     THEN Stack_fmt_Display(chain[o])
                     ELSE Top_fmt_Display(chain[o])
       IN /\ chain' = [chain EXCEPT ![o] = IF result.kind = "aborted" THEN result ELSE @]
          /\ out' = IF result.kind = "aborted" THEN NoText ELSE Written("Display", result)
    /\ UNCHANGED <<pushed, path>>

\* format!("{:?}", value)
Debug(o) ==
    /\ chain[o].kind \in {"stack", "top", "entry"}
    /\ out' = Written("Debug",
                   CASE chain[o].kind = "stack" -> Stack_fmt_Debug(chain[o])
                     [] chain[o].kind = "top" -> Top_fmt_Debug(chain[o])
                     [] OTHER -> Text(Entry_fmt_Debug(chain[o].entry)))
    /\ UNCHANGED <<chain, pushed, path>>

\* The operations by which an owner builds its chain.
Ops(o) ==
    \/ New(o)
    \/ \E doom \in Dooms : IntoTop(o, doom)
    \/ \E doom \in Dooms : IntoStack(o, doom)
    \/ \E doom \in Dooms : Archive(o, doom)
    \/ \E location \in Locations : EntrySpot(o, location)
    \/ \E doom \in Dooms : StackPush(o, doom)
    \/ \E doom \in Dooms : StackPushAsStack(o, doom)
    \/ \E location \in Locations : StackSpot(o, location)
    \/ \E doom \in Dooms, location \in Locations : StackPot(o, doom, location)
    \/ \E doom \in Dooms : TopPush(o, doom)
    \/ \E doom \in Dooms : TopPushAsStack(o, doom)
    \/ \E location \in Locations : TopSpot(o, location)
    \/ \E doom \in Dooms, location \in Locations : TopPot(o, doom, location)
    \/ Convert(o)

\* The operations that build a chain.
Build == Ops(Builder)

\* Building a chain and cloning it, back and forth between two owners.
Next ==
    \/ Build
    \/ Clone(Builder, Keeper)
    \/ Clone(Keeper, Builder)

Spec == Init /\ [][Next]_vars

\* Building a chain and rendering it.
NextFmt ==
    \/ Build
    \/ Display(Builder)
    \/ Debug(Builder)

SpecFmt == Init /\ [][NextFmt]_vars

\* The errors two owners hold between them, at most, when both build.
MaxShared == 3

Fits == Size(chain[Builder]) + Size(chain[Keeper]) <= MaxShared

\* Two owners: each clones the other's chain and builds on its own copy, in
\* any interleaving.
NextShared ==
    \/ \E o \in Owners : Ops(o) /\ Fits'
    \/ Clone(Builder, Keeper) /\ Fits'
    \/ Clone(Keeper, Builder) /\ Fits'

SpecShared == Init /\ [][NextShared]_vars

\* ------------------------------------------------------- what is checked

\* The archived entries of the value an owner holds, oldest first: entry i
\* archives the i-th error given to the chain.
Archived(o) ==
    CASE chain[o].kind = "stack" -> chain[o].entries
      [] chain[o].kind = "top" -> chain[o].stack.entries
      [] chain[o].kind = "entry" -> <<chain[o].entry>>
      [] OTHER -> <<>>

\* The Stack values an owner can look at: its own, or the one under its Top.
Stacks(o) ==
    CASE chain[o].kind = "stack" -> {chain[o]}
      [] chain[o].kind = "top" -> {chain[o].stack}
      [] OTHER -> {}

\* The tag and the description of each entry, in the order entries() yields them.
TagsAndDescriptions(stack) ==
    LET entries == Stack_entries(stack)
    IN [i \in 1..Len(entries) |-> <<Entry_tag(entries[i]), Entry_description(entries[i])>>]

\* Stack::new().push_as_stack(d1)...push_as_stack(dn)
RECURSIVE DirectBuild(_)
DirectBuild(dooms) ==
    IF dooms = <<>> THEN Stack_new
    ELSE Stack_push_as_stack(DirectBuild(SubSeq(dooms, 1, Len(dooms) - 1)),
                             dooms[Len(dooms)])

\* C1: entries() on a Stack built by pushing v1..vn, through whatever mix of
\* pushes and conversions, yields exactly n entries, and the i-th carries the
\* tag and the description of v(n+1-i): most recently pushed first.
C1_EntriesNewestFirst ==
    \A o \in Owners :
        chain[o].kind = "stack" =>
            LET entries == Stack_entries(chain[o])
                n == Len(pushed[o])
            IN /\ Len(entries) = n
               /\ \A i \in 1..n :
                    /\ Entry_tag(entries[i]) = tag(pushed[o][n + 1 - i])
                    /\ Entry_description(entries[i]) = as_str(description(pushed[o][n + 1 - i]))

\* C1 witness: a Stack of three errors whose first and last differ in tag,
\* built with both typed and archiving pushes.
C1_Witness ==
    /\ chain[Builder].kind = "stack"
    /\ Len(pushed[Builder]) = 3
    /\ tag(pushed[Builder][1]) # tag(pushed[Builder][3])
    /\ path[Builder] = "mixed"
    /\ Entry_tag(Stack_entries(chain[Builder])[1]) = tag(pushed[Builder][3])

\* C2: a step stack.spot(loc) on a non-empty Stack sets the location of the
\* most recently appended entry to loc and changes nothing else: not the
\* number of entries, nor any tag, description or original, nor the location
\* of any other entry.
C2_SpotOnlyTouchesTop ==
    [][\A location \in Locations :
         (StackSpot(Builder, location) /\ chain[Builder].entries # <<>>) =>
            LET before == chain[Builder].entries
                after == chain'[Builder]
                n == Len(before)
            IN /\ after.kind = "stack"
               /\ Len(after.entries) = n
               /\ Entry_location(after.entries[n]) = Some(location)
               /\ \A i \in 1..n :
                    /\ after.entries[i].tag = before[i].tag
                    /\ after.entries[i].description = before[i].description
                    /\ after.entries[i].original = before[i].original
               /\ \A i \in 1..(n - 1) :
                    Entry_location(after.entries[i]) = Entry_location(before[i])]_vars

\* C2 witness: a Stack of three entries whose top was spotted while the two
\* below keep what they had (one location, and none).
C2_Witness ==
    /\ chain[Builder].kind = "stack"
    /\ Len(chain[Builder].entries) = 3
    /\ is_some(chain[Builder].entries[3].location)
    /\ is_some(chain[Builder].entries[2].location)
    /\ chain[Builder].entries[2].location # chain[Builder].entries[3].location
    /\ chain[Builder].entries[1].location = None

\* C3: in every value an owner holds, a clone included, an entry retains an
\* original exactly when keep_original() is true of the error it archived.
C3_OriginalIffKeepOriginal ==
    \A o \in Owners :
        \A i \in 1..Len(Archived(o)) :
            is_some(Entry_original(Archived(o)[i])) <=> keep_original(pushed[o][i])

\* C3 witness: a clone holds a Stack with an entry that retains its original
\* above one that does not.
C3_Witness ==
    /\ chain[Keeper].kind = "stack"
    /\ Len(chain[Keeper].entries) = 2
    /\ ~keep_original(pushed[Keeper][1])
    /\ Entry_original(chain[Keeper].entries[1]) = None
    /\ keep_original(pushed[Keeper][2])
    /\ is_some(Entry_original(chain[Keeper].entries[2]))

\* C4: the original retained for an error v with keep_original() = true,
\* recovered as v's own type, is v itself, field for field, in every value
\* reached by later pushes, spots and clones.
C4_OriginalIsTheError ==
    \A o \in Owners :
        \A i \in 1..Len(Archived(o)) :
            keep_original(pushed[o][i]) =>
                /\ is_some(Entry_original(Archived(o)[i]))
                /\ downcast_ref(unwrap(Entry_original(Archived(o)[i])), pushed[o][i].ty)
                     = Some(pushed[o][i])

\* C4 witness: a clone of a Stack that archived Oupsie(42), then Oupsie(7),
\* was pushed onto and spotted since, and still yields 42 and 7.
C4_Witness ==
    /\ chain[Keeper].kind = "stack"
    /\ Len(chain[Keeper].entries) = 3
    /\ pushed[Keeper][1] = [ty |-> "Oupsie", field |-> 42]
    /\ pushed[Keeper][2] = [ty |-> "Oupsie", field |-> 7]
    /\ is_some(chain[Keeper].entries[3].location)
    /\ unwrap(downcast_ref(unwrap(chain[Keeper].entries[1].original), "Oupsie")).field = 42
    /\ unwrap(downcast_ref(unwrap(chain[Keeper].entries[2].original), "Oupsie")).field = 7

\* C5: the Stack built by d1.into_top().push(d2)...push_as_stack(dn) has the
\* entries, by tag and description and in order, of the Stack built by
\* Stack::new().push_as_stack(d1)...push_as_stack(dn).
C5_TypedPathEqualsDirectPath ==
    \A o \in Owners :
        (chain[o].kind = "stack" /\ path[o] = "typed") =>
            TagsAndDescriptions(chain[o]) = TagsAndDescriptions(DirectBuild(pushed[o]))

\* C5 witness: a Stack of three errors built through the typed path alone.
C5_Witness ==
    /\ chain[Builder].kind = "stack"
    /\ path[Builder] = "typed"
    /\ Len(chain[Builder].entries) = 3
    /\ pushed[Builder][1] # pushed[Builder][2]
    /\ pushed[Builder][2] # pushed[Builder][3]

\* C6: a step stack.spot(loc) on a Stack with no entries aborts: the owner is
\* left with no Stack at all.
C6_SpotOnEmptyAborts ==
    [][\A location \in Locations :
         (StackSpot(Builder, location) /\ chain[Builder].entries = <<>>) =>
            chain'[Builder] = Panic("Stack::spot")]_vars

\* C6 witness: the builder spotted an empty Stack and was aborted by it.
C6_Witness == chain[Builder] = Panic("Stack::spot")

\* C7: the only step that aborts is Stack::spot on an empty Stack: every
\* other operation, from every reachable value, completes.
C7_OnlySpotAborts ==
    [][(chain[Builder].kind # "aborted" /\ chain'[Builder].kind = "aborted") =>
         \E location \in Locations :
            StackSpot(Builder, location) /\ chain[Builder].entries = <<>>]_vars

\* C8: Display writes "<top: TAG>", TAG being the tag of the most recently
\* pushed error: the last entry of a Stack, the unarchived error of a Top.
C8_DisplayShowsTopTag ==
    (out.kind = "text" /\ out.fmt = "Display") =>
        /\ chain[Builder].kind \in {"stack", "top"}
        /\ pushed[Builder] # <<>>
        /\ out.text = "<top: " \o tag(pushed[Builder][Len(pushed[Builder])]) \o ">"
        /\ chain[Builder].kind = "top" =>
              out.text = "<top: " \o tag(Top_doom(chain[Builder])) \o ">"

\* C8 witness: after pushing an Oupsie and then an AnotherError, the Stack
\* renders as "<top: AnotherError>".
C8_Witness ==
    /\ chain[Builder].kind = "stack"
    /\ Len(pushed[Builder]) = 2
    /\ tag(pushed[Builder][1]) = "Oupsie"
    /\ tag(pushed[Builder][2]) = "AnotherError"
    /\ out.kind = "text"
    /\ out.fmt = "Display"
    /\ out.text = "<top: AnotherError>"

\* C9: for every Stack s, empty or not, and every error d, s.push_as_stack(d)
\* is Stack::from(s.push(d)): the entries of s followed by one entry with d's
\* tag and description, no location, and an original iff keep_original().
C9_PushAsStackIsPushThenFrom ==
    \A o \in Owners : \A stack \in Stacks(o) : \A doom \in Dooms :
        LET direct == Stack_push_as_stack(stack, doom)
            n == Len(stack.entries)
            newest == direct.entries[n + 1]
        IN /\ direct = Stack_from(Stack_push(stack, doom))
           /\ Len(direct.entries) = n + 1
           /\ SubSeq(direct.entries, 1, n) = stack.entries
           /\ Entry_tag(newest) = tag(doom)
           /\ Entry_description(newest) = as_str(description(doom))
           /\ Entry_location(newest) = None
           /\ is_some(Entry_original(newest)) <=> keep_original(doom)

\* C9 witness: a Stack the builder grew with push_as_stack alone, from
\* Stack::new(), to two entries.
C9_Witness ==
    /\ chain[Builder].kind = "stack"
    /\ path[Builder] = "direct"
    /\ Len(chain[Builder].entries) = 2

\* C10: a step stack.push(d) archives nothing: the Top it yields holds d, has
\* no pending location, and lies over exactly the entries the Stack had.
C10_PushDoesNotArchive ==
    [][\A doom \in Dooms :
         StackPush(Builder, doom) =>
            /\ chain'[Builder].kind = "top"
            /\ Top_doom(chain'[Builder]) = doom
            /\ Top_location(chain'[Builder]) = None
            /\ Top_stack(chain'[Builder]) = chain[Builder]
            /\ Len(Archived(Builder)') = Len(pushed'[Builder]) - 1]_vars

\* C10 witness: a Top with no pending location over a Stack of two entries,
\* the upper one spotted: one error more was given than is archived.
C10_Witness ==
    /\ chain[Builder].kind = "top"
    /\ chain[Builder].location = None
    /\ Len(chain[Builder].stack.entries) = 2
    /\ is_some(chain[Builder].stack.entries[2].location)
    /\ Len(pushed[Builder]) = 3

\* C11: a step Stack::from(top) appends exactly one entry to the Top's
\* underlying stack: the entries below are unchanged, locations included, and
\* the new one has the error's tag and description, the Top's pending location
\* (none if it was never spotted) and an original iff keep_original().
C11_ConversionAppendsOne ==
    [][Convert(Builder) =>
         LET top == chain[Builder]
             after == chain'[Builder]
             n == Len(top.stack.entries)
         IN /\ after.kind = "stack"
            /\ Len(after.entries) = n + 1
            /\ SubSeq(after.entries, 1, n) = top.stack.entries
            /\ Entry_tag(after.entries[n + 1]) = tag(top.doom)
            /\ Entry_description(after.entries[n + 1]) = as_str(description(top.doom))
            /\ Entry_location(after.entries[n + 1]) = top.location
            /\ is_some(Entry_original(after.entries[n + 1])) <=> keep_original(top.doom)]_vars

\* C11 witness: a Stack of two entries carrying two different locations, the
\* lower entry not retained and the upper one retained.
C11_Witness ==
    /\ chain[Builder].kind = "stack"
    /\ Len(chain[Builder].entries) = 2
    /\ is_some(chain[Builder].entries[1].location)
    /\ is_some(chain[Builder].entries[2].location)
    /\ chain[Builder].entries[1].location # chain[Builder].entries[2].location
    /\ chain[Builder].entries[1].original = None
    /\ is_some(chain[Builder].entries[2].original)

\* C12: d.into_top() is a Top holding d over no entries with no pending
\* location; d.into_stack() is a Stack of exactly one entry, which archives
\* d, and is the conversion of d.into_top().
C12_IntoTopAndIntoStack ==
    [][\A doom \in Dooms :
         /\ IntoTop(Builder, doom) =>
              /\ chain'[Builder].kind = "top"
              /\ Top_doom(chain'[Builder]) = doom
              /\ Top_stack(chain'[Builder]).entries = <<>>
              /\ Top_location(chain'[Builder]) = None
         /\ IntoStack(Builder, doom) =>
              /\ chain'[Builder].kind = "stack"
              /\ Len(chain'[Builder].entries) = 1
              /\ Entry_tag(chain'[Builder].entries[1]) = tag(doom)
              /\ Entry_description(chain'[Builder].entries[1]) = as_str(description(doom))
              /\ Entry_location(chain'[Builder].entries[1]) = None
              /\ is_some(Entry_original(chain'[Builder].entries[1])) <=> keep_original(doom)
              /\ chain'[Builder] = Stack_from(into_top(doom))]_vars

\* C12 witness: a Stack whose only entry archives Oupsie(42), never spotted.
C12_Witness ==
    /\ chain[Builder].kind = "stack"
    /\ pushed[Builder] = <<[ty |-> "Oupsie", field |-> 42]>>
    /\ Len(chain[Builder].entries) = 1
    /\ chain[Builder].entries[1].location = None
    /\ path[Builder] = "mixed"

\* What entries() shows of the value an owner holds: every entry, newest
\* first, with its tag, description, location and original.
Shown(o) ==
    CASE chain[o].kind = "stack" -> Stack_entries(chain[o])
      [] chain[o].kind = "top" -> Stack_entries(Top_stack(chain[o]))
      [] chain[o].kind = "entry" -> <<chain[o].entry>>
      [] OTHER -> <<>>

Other(o) == IF o = Builder THEN Keeper ELSE Builder

ExpectedLine(doom, location) ==
    IF is_some(location)
    THEN "[" \o tag(doom) \o " @ " \o unwrap(location).file \o ":"
             \o ToString(unwrap(location).line) \o "] " \o as_str(description(doom))
    ELSE "[" \o tag(doom) \o "] " \o as_str(description(doom))

\* The location of the i-th error given to o's chain: its entry's, or the
\* Top's pending one for the error not yet archived.
LocationOf(o, i) ==
    IF i <= Len(Archived(o)) THEN Archived(o)[i].location ELSE chain[o].location

\* One line per error given to o's chain, from the i-th down to the first.
RECURSIVE ExpectedLines(_, _)
ExpectedLines(o, i) ==
    IF i = 0 THEN ""
    ELSE ExpectedLine(pushed[o][i], LocationOf(o, i)) \o "\n" \o ExpectedLines(o, i - 1)

\* C14: Debug writes one line per error of the chain, most recent first:
\* "[TAG @ file:line] description" for a spotted one, "[TAG] description"
\* otherwise; for a Top, the line of its unarchived error (with its pending
\* location) comes first, then the lines of the underlying stack.
C14_DebugLines ==
    (out.kind = "text" /\ out.fmt = "Debug" /\ chain[Builder].kind \in {"stack", "top"}) =>
        out.text = ExpectedLines(Builder, Len(pushed[Builder]))

\* C14 witness: a spotted Top over a Stack of a spotted and an unspotted
\* entry, rendered as three lines.
C14_Witness ==
    /\ chain[Builder].kind = "top"
    /\ pushed[Builder] = <<[ty |-> "Oupsie", field |-> 42],
                           [ty |-> "AnotherError", field |-> 3],
                           [ty |-> "Oupsie", field |-> 7]>>
    /\ out.kind = "text"
    /\ out.fmt = "Debug"
    /\ out.text = "[Oupsie @ main.rs:12] Made a mess\n"
                  \o "[AnotherError @ lib.rs:7] Another error occurred, with severity 3\n"
                  \o "[Oupsie] Made a mess\n"

\* C15: the archived history is append-only: every building step keeps the
\* entries archived so far as a prefix of the new ones, with tag, description
\* and original unchanged, and changes the location of none but the entry of
\* the most recently pushed error.
C15_HistoryIsAppendOnly ==
    [][Build =>
         LET before == Archived(Builder)
             after == Archived(Builder)'
         IN /\ Len(before) <= Len(after)
            /\ \A i \in 1..Len(before) :
                 /\ after[i].tag = before[i].tag
                 /\ after[i].description = before[i].description
                 /\ after[i].original = before[i].original
                 /\ after[i].location # before[i].location =>
                      (i = Len(before) /\ i = Len(pushed[Builder]))]_vars

\* C15 witness: a Stack of three entries of which the first and the third
\* were spotted while they were the most recent, and the second never was.
C15_Witness ==
    /\ chain[Builder].kind = "stack"
    /\ Len(chain[Builder].entries) = 3
    /\ is_some(chain[Builder].entries[1].location)
    /\ chain[Builder].entries[2].location = None
    /\ is_some(chain[Builder].entries[3].location)
    /\ chain[Builder].entries[1].location # chain[Builder].entries[3].location

\* C16: a step top.spot(loc) changes the Top's pending location and nothing
\* else: the error and every entry underneath, locations included, stay, the
\* new location replaces any earlier one, and loc reaches an entry only with
\* the conversion, on the entry made for the Top's own error.
C16_TopSpotIsPending ==
    [][\A location \in Locations :
         TopSpot(Builder, location) =>
            LET top == chain[Builder]
                after == chain'[Builder]
                n == Len(top.stack.entries)
                converted == Stack_from(after)
            IN /\ after.kind = "top"
               /\ Top_doom(after) = Top_doom(top)
               /\ Top_stack(after) = Top_stack(top)
               /\ Top_location(after) = Some(location)
               /\ converted.kind = "stack"
               /\ SubSeq(converted.entries, 1, n) = top.stack.entries
               /\ Len(converted.entries) = n + 1
               /\ Entry_tag(converted.entries[n + 1]) = tag(top.doom)
               /\ Entry_location(converted.entries[n + 1]) = Some(location)]_vars

\* C16 witness: a Top spotted at one location over an entry that keeps the
\* other location it was spotted at.
C16_Witness ==
    /\ chain[Builder].kind = "top"
    /\ is_some(chain[Builder].location)
    /\ Len(chain[Builder].stack.entries) = 1
    /\ is_some(chain[Builder].stack.entries[1].location)
    /\ chain[Builder].stack.entries[1].location # chain[Builder].location

\* C17: a step top.push(p) on a Top holding d with pending location l yields
\* a Top holding p with no pending location, over the old underlying stack
\* plus one entry for d that carries l.
C17_TopPushArchivesItsOwn ==
    [][\A doom \in Dooms :
         TopPush(Builder, doom) =>
            LET top == chain[Builder]
                after == chain'[Builder]
                n == Len(top.stack.entries)
            IN /\ after.kind = "top"
               /\ Top_doom(after) = doom
               /\ Top_location(after) = None
               /\ Len(after.stack.entries) = n + 1
               /\ SubSeq(after.stack.entries, 1, n) = top.stack.entries
               /\ Entry_tag(after.stack.entries[n + 1]) = tag(top.doom)
               /\ Entry_description(after.stack.entries[n + 1]) = as_str(description(top.doom))
               /\ Entry_location(after.stack.entries[n + 1]) = top.location
               /\ is_some(Entry_original(after.stack.entries[n + 1])) <=> keep_original(top.doom)]_vars

\* C17 witness: a Top with no pending location over two entries built by the
\* typed path, so both were archived by Top::push.
C17_Witness ==
    /\ chain[Builder].kind = "top"
    /\ path[Builder] = "typed"
    /\ chain[Builder].location = None
    /\ Len(chain[Builder].stack.entries) = 2

C19_ArchivedExactlyOnce ==
    \A o \in Owners :
        chain[o].kind \in {"stack", "top"} =>
            /\ Len(Archived(o)) + (IF chain[o].kind = "top" THEN 1 ELSE 0) = Len(pushed[o])
            /\ chain[o].kind = "top" => Top_doom(chain[o]) = pushed[o][Len(pushed[o])]
            /\ \A i \in 1..Len(Archived(o)) :
                 /\ Archived(o)[i].tag = tag(pushed[o][i])
                 /\ Archived(o)[i].description = description(pushed[o][i])

\* C19 witness: three different errors went through a Top each and are now
\* the three entries of a Stack.
C19_Witness ==
    /\ chain[Builder].kind = "stack"
    /\ path[Builder] = "typed"
    /\ Len(chain[Builder].entries) = 3
    /\ Cardinality({pushed[Builder][i] : i \in 1..3}) = 3

\* The entries and non-empty Stacks an owner holds, each with its spot.
Spottable(o) ==
    CASE chain[o].kind = "entry" -> {chain[o].entry}
      [] chain[o].kind = "stack" /\ chain[o].entries # <<>> -> {chain[o]}
      [] OTHER -> {}

spot(x, location) ==
    IF "kind" \in DOMAIN x THEN Stack_spot(x, location) ELSE Entry_spot(x, location)

\* C20: an entry just archived has no location, and spotting is idempotent
\* and last-write-wins: for an entry or a non-empty Stack x,
\* x.spot(l1).spot(l2) = x.spot(l2) and x.spot(l1).spot(l1) = x.spot(l1).
C20_SpotLastWriteWins ==
    /\ [](\A o \in Owners : \A x \in Spottable(o) : \A l1, l2 \in Locations :
            /\ spot(spot(x, l1), l2) = spot(x, l2)
            /\ spot(spot(x, l1), l1) = spot(x, l1))
    /\ [][\A doom \in Dooms :
            /\ Archive(Builder, doom) => Entry_location(chain'[Builder].entry) = None
            /\ StackPushAsStack(Builder, doom) =>
                 Entry_location(chain'[Builder].entries[Len(chain'[Builder].entries)]) = None]_vars

\* C20 witness: an entry archived without a location and then spotted.
C20_Witness ==
    /\ chain[Builder].kind = "entry"
    /\ is_some(chain[Builder].entry.location)

\* C21: conversion preserves rendering: for every Top, spotted or not, over
\* entries or none, Display and Debug write for the Top exactly what they
\* write for the Stack it converts into.
C21_ConversionPreservesRendering ==
    chain[Builder].kind = "top" =>
        LET top == chain[Builder]
            stack == Stack_from(top)
        IN /\ stack.kind = "stack"
           /\ Stack_fmt_Display(stack).kind = "text"
           /\ Top_fmt_Display(top) = Stack_fmt_Display(stack)
           /\ Top_fmt_Debug(top) = Stack_fmt_Debug(stack)
           /\ (out.kind = "text" /\ out.fmt = "Display") => out.text = Stack_fmt_Display(stack).text
           /\ (out.kind = "text" /\ out.fmt = "Debug") => out.text = Stack_fmt_Debug(stack).text

\* C21 witness: a spotted Top over a spotted entry was rendered with Debug,
\* and the text is the one of the Stack it converts into.
C21_Witness ==
    /\ chain[Builder].kind = "top"
    /\ is_some(chain[Builder].location)
    /\ Len(chain[Builder].stack.entries) = 1
    /\ is_some(chain[Builder].stack.entries[1].location)
    /\ out.kind = "text"
    /\ out.fmt = "Debug"
    /\ out.text = Stack_fmt_Debug(Stack_from(chain[Builder])).text

\* C22: every Stack that push_as_stack, into_stack, Top::push_as_stack or a
\* conversion produces has an entry, so no conversion (alone or inside
\* Top::push and Top::pot) aborts in its Stack::spot; a Stack with no entries
\* is Stack::new() or a clone of it, and a Top lies over no entries only if
\* it holds the first error of its chain.
C22_ProducedStacksAreNonEmpty ==
    /\ [](\A o \in Owners :
            /\ (chain[o].kind = "stack" /\ chain[o].entries = <<>>) =>
                   (pushed[o] = <<>> /\ path[o] = "direct")
            /\ (chain[o].kind = "top" /\ chain[o].stack.entries = <<>>) =>
                   Len(pushed[o]) = 1)
    /\ [][\A doom \in Dooms :
            /\ (\/ StackPushAsStack(Builder, doom)
                \/ IntoStack(Builder, doom)
                \/ TopPushAsStack(Builder, doom)
                \/ Convert(Builder)) =>
                   (chain'[Builder].kind = "stack" /\ chain'[Builder].entries # <<>>)
            /\ (\/ TopPush(Builder, doom)
                \/ \E location \in Locations : TopPot(Builder, doom, location)) =>
                   (chain'[Builder].kind = "top" /\ chain'[Builder].stack.entries # <<>>)]_vars

\* C22 witness: the keeper holds a clone of Stack::new(), with no entries,
\* while the builder's Stack has the one entry of a spotted first error.
C22_Witness ==
    /\ chain[Keeper].kind = "stack"
    /\ chain[Keeper].entries = <<>>
    /\ chain[Builder].kind = "stack"
    /\ Len(chain[Builder].entries) = 1
    /\ Len(pushed[Builder]) = 1
    /\ is_some(chain[Builder].entries[1].location)

====
